---- MODULE Spec2Model ----
(***************************************************************************)
(* Model of aiodropbox: the block-wise content hasher                      *)
(* (src/aiodropbox/hasher.py) and the upload session                       *)
(* (src/aiodropbox/upload_session.py) over the base client's request       *)
(* primitive (src/aiodropbox/base.py).                                     *)
(*                                                                         *)
(* Two specifications share the module:                                    *)
(*   HasherSpec  one DropboxContentHasher driven by update/digest/hexdigest *)
(*   Spec        one UploadSession driven by a caller, one step per        *)
(*               synchronous segment between two awaits                    *)
(* The session state is indexed by session object, so that a further       *)
(* instance can be run over the same transport.                            *)
(***************************************************************************)
EXTENDS Integers, Sequences, FiniteSets, TLC

VARIABLES
    \* ---- DropboxContentHasher instance under test (HasherSpec)
    hasher,       \* the instance's fields
    fed,          \* history: every byte accepted by update(), in order
    hout,         \* outcome of the last hasher call
    \* ---- UploadSession instances (Spec), each a function over Sessions
    source,       \* history: the chunks the stream yields, as constructed
    stream,       \* chunks the async iterator has not yielded yet
    offset,       \* self._offset
    session_id,   \* self._session_id (Unset until start() assigns it)
    path,         \* self._path (Unset until upload() assigns it)
    pc,           \* position of the running coroutine, "idle" between calls
    buffer,       \* upload(): local buffer
    chunk_size,   \* upload(): parameter chunk_size
    req,          \* the request built for the pending transport call
    ctx,          \* async-with position of the caller
    exc,          \* exception travelling through __aexit__
    hist,         \* history: the completed operations with their outcome
    \* ---- transport
    calls         \* history: every transport call issued, with its answer

hvars == <<hasher, fed, hout>>
svars == <<source, stream, offset, session_id, path, pc, buffer, chunk_size,
           req, ctx, exc, hist, calls>>
vars == <<hasher, fed, hout, source, stream, offset, session_id, path, pc,
          buffer, chunk_size, req, ctx, exc, hist, calls>>

(***************************************************************************)
(* Bounds                                                                  *)
(***************************************************************************)
\* Block size of the hasher.  The source sets 4 * 1024 * 1024; update() and
\* _finish() use it only in the comparison with _block_pos and in the
\* subtraction that gives space_in_block, so the model runs it scaled down.
BLOCK_SIZE == 2
\* HasherSpec: most bytes fed to one hasher, longest span of one update().
MaxFed == 5
MaxUpdateLen == 3

Byte == {0, 1}

Min(a, b) == IF a < b THEN a ELSE b

\* Variant of Slice: the slice has no upper bound.
SliceToEnd(s, a, b) == SubSeq(s, a + 1, Len(s))

\* Python slice s[a:b] for 0 <= a, 0 <= b (0-based, end exclusive, clamped).
Slice(s, a, b) == SubSeq(s, a + 1, Min(b, Len(s)))

\* All sequences over S of length at most n.
SeqsUpTo(S, n) == UNION {[1..k -> S] : k \in 0..n}

(***************************************************************************)
(* hashlib.sha256: an object is the bytes fed to it; digest() is modelled  *)
(* as an injective constructor over that content.  The overall hasher is   *)
(* fed block digests: its content is the sequence of digests, which is     *)
(* their concatenation since every digest has the same length.            *)
(***************************************************************************)
Sha256New == [is_none |-> FALSE, data |-> <<>>]
Sha256None == [is_none |-> TRUE, data |-> <<>>]
Sha256Update(h, data) == [h EXCEPT !.data = @ \o data]
Sha256Digest(h) == [sha256 |-> h.data]
\* hexdigest(): the hexadecimal text of the digest, a different value.
HexOf(d) == [hex |-> <<d>>]

(***************************************************************************)
(* DropboxContentHasher                                                    *)
(***************************************************************************)
HasherInit ==
    [overall_hasher |-> Sha256New, block_hasher |-> Sha256New, block_pos |-> 0]

\* Variant of HasherUsable: the guard on a consumed hasher is missing.
HasherUsableAlways(h) == TRUE

\* update(): the overall hasher is gone once digest() was called.
HasherUsable(h) == ~h.overall_hasher.is_none

\* Variant of RotateBlock: the rotation forgets to replace the block hasher.
RotateBlockKeepsHasher(h) ==
    [h EXCEPT !.overall_hasher =
                  Sha256Update(@, <<Sha256Digest(h.block_hasher)>>),
              !.block_pos = 0]

\* The rotation update() makes before writing into a full block.
RotateBlock(h) ==
    [h EXCEPT !.overall_hasher =
                  Sha256Update(@, <<Sha256Digest(h.block_hasher)>>),
              !.block_hasher = Sha256New,
              !.block_pos = 0]

\* Variant of UpdateLoop: the rest of new_data goes into the current block
\* whole, without the cut at space_in_block.
UpdateLoopNoSplit(h, new_data, new_data_pos) ==
    IF new_data_pos < Len(new_data)
    THEN LET h1 == IF h.block_pos >= BLOCK_SIZE THEN RotateBlock(h) ELSE h
             part == Slice(new_data, new_data_pos, Len(new_data))
         IN [h1 EXCEPT !.block_hasher = Sha256Update(@, part),
                       !.block_pos = @ + Len(part)]
    ELSE h

\* Variant of UpdateLoop: a block is rotated as soon as it is full, at the
\* end of the iteration that filled it.
RECURSIVE UpdateLoopEager(_, _, _)
UpdateLoopEager(h, new_data, new_data_pos) ==
    IF new_data_pos < Len(new_data)
    THEN LET space_in_block == BLOCK_SIZE - h.block_pos
             part == Slice(new_data, new_data_pos, new_data_pos + space_in_block)
             h2 == [h EXCEPT !.block_hasher = Sha256Update(@, part),
                             !.block_pos = @ + Len(part)]
             h3 == IF h2.block_pos = BLOCK_SIZE THEN RotateBlock(h2) ELSE h2
         IN UpdateLoopEager(h3, new_data, new_data_pos + Len(part))
    ELSE h

\* update(): the while loop, from position new_data_pos on.
RECURSIVE UpdateLoop(_, _, _)
UpdateLoop(h, new_data, new_data_pos) ==
    IF new_data_pos < Len(new_data)
    THEN LET h1 == IF h.block_pos = BLOCK_SIZE THEN RotateBlock(h) ELSE h
             space_in_block == BLOCK_SIZE - h1.block_pos
             part == Slice(new_data, new_data_pos, new_data_pos + space_in_block)
             h2 == [h1 EXCEPT !.block_hasher = Sha256Update(@, part),
                              !.block_pos = @ + Len(part)]
         IN UpdateLoop(h2, new_data, new_data_pos + Len(part))
    ELSE h

HasherUpdate(h, new_data) == UpdateLoop(h, new_data, 0)

\* Variant of FoldsLastBlock: _finish() without its `if self._block_pos > 0`.
FoldsLastBlockAlways(h) == TRUE

\* _finish(): whether the current block is folded into the overall hasher.
FoldsLastBlock(h) == h.block_pos > 0

\* _finish(): the hash object returned for the entire file.
FinishHash(h) ==
    IF FoldsLastBlock(h)
    THEN Sha256Update(h.overall_hasher, <<Sha256Digest(h.block_hasher)>>)
    ELSE h.overall_hasher

\* _finish(): the instance afterwards.
FinishState(h) ==
    [h EXCEPT !.overall_hasher = Sha256None,
              !.block_hasher = IF FoldsLastBlock(h) THEN Sha256None ELSE @]

HasherDigest(h) == Sha256Digest(FinishHash(h))
HasherHexdigest(h) == HexOf(Sha256Digest(FinishHash(h)))

\* The content_hash the session computes for one body: a new hasher, one
\* update with the body, hexdigest().
ContentHash(body) == HasherHexdigest(HasherUpdate(HasherInit, body))

(***************************************************************************)
(* HasherSpec: one hasher instance, any calls in any order                 *)
(***************************************************************************)
NoOut == [kind |-> "none", value |-> <<>>]

DoUpdate(data) ==
    /\ IF HasherUsable(hasher)
       THEN /\ hasher' = HasherUpdate(hasher, data)
            /\ fed' = fed \o data
            /\ hout' = [kind |-> "updated", value |-> <<>>]
       ELSE /\ hout' = [kind |-> "AssertionError", value |-> <<>>]
            /\ UNCHANGED <<hasher, fed>>
    /\ UNCHANGED svars

DoDigest ==
    /\ IF HasherUsable(hasher)
       THEN /\ hout' = [kind |-> "digest", value |-> <<HasherDigest(hasher)>>]
            /\ hasher' = FinishState(hasher)
       ELSE /\ hout' = [kind |-> "AssertionError", value |-> <<>>]
            /\ UNCHANGED hasher
    /\ UNCHANGED fed
    /\ UNCHANGED svars

DoHexdigest ==
    /\ IF HasherUsable(hasher)
       THEN /\ hout' = [kind |-> "hexdigest", value |-> <<HasherHexdigest(hasher)>>]
            /\ hasher' = FinishState(hasher)
       ELSE /\ hout' = [kind |-> "AssertionError", value |-> <<>>]
            /\ UNCHANGED hasher
    /\ UNCHANGED fed
    /\ UNCHANGED svars

HasherNext ==
    \/ \E data \in SeqsUpTo(Byte, MaxUpdateLen) :
           /\ Len(fed) + Len(data) <= MaxFed
           /\ DoUpdate(data)
    \/ DoDigest
    \/ DoHexdigest


HasherSpecInit ==
    /\ hasher = HasherInit
    /\ fed = <<>>
    /\ hout = NoOut

(***************************************************************************)
(* UploadSession                                                           *)
(***************************************************************************)
\* Most bytes a source stream yields in all.
MaxBytes == 4
\* Most bytes a stream of wide spans yields in all.
MaxWideBytes == 7
\* Largest ordinary chunk_size a caller passes (besides one above the maximum).
MaxChunkSize == 2
\* Operations a caller invokes on one session object.
MaxOps == 3
\* Faults of the environment in one run: a missing access token, a
\* non-success status, a start response without session_id, a cancellation.
MaxFaults == 1

\* const.py
MAX_UPLOAD_CHUNK_SIZE == 157286400

Sessions == {"s1", "s2"}

RECURSIVE SumSeq(_)
SumSeq(s) == IF s = <<>> THEN 0 ELSE Head(s) + SumSeq(Tail(s))

RECURSIVE Flatten(_)
Flatten(ss) == IF ss = <<>> THEN <<>> ELSE Head(ss) \o Flatten(Tail(ss))

\* The stream whose chunks have the lengths lens and whose bytes are numbered
\* in stream order, so that a lost, repeated or reordered byte shows.
Chunked(lens) ==
    [k \in 1..Len(lens) |->
        [j \in 1..lens[k] |-> SumSeq(SubSeq(lens, 1, k - 1)) + j]]

\* Every way to yield at most MaxBytes bytes in non-empty chunks.
Streams == {Chunked(lens) : lens \in {l \in SeqsUpTo(1..MaxBytes, MaxBytes) :
                                          SumSeq(l) <= MaxBytes}}

\* Streams of wide spans: a first span of one byte, which start() takes, and
\* then spans of two bytes or more, at most MaxWideBytes bytes in all.
WideStreams ==
    {Chunked(<<1>> \o lens) :
        lens \in {l \in SeqsUpTo(2..MaxWideBytes, MaxWideBytes \div 2) :
                      1 + SumSeq(l) <= MaxWideBytes}}

\* Streams and destination paths of two concurrent sessions: a first span
\* of one byte for one and of two bytes for the other, so that their offsets
\* differ, and a second span of one byte; distinct paths.
DuoSource ==
    [i \in Sessions |-> IF i = "s1" THEN Chunked(<<1, 1>>) ELSE Chunked(<<2, 1>>)]
DuoPath == [i \in Sessions |-> IF i = "s1" THEN <<"/", "f">> ELSE <<"/", "g">>]

\* Destination paths a caller passes: with and without a leading separator.
Paths == {<<"/", "f">>, <<"f">>}
ChunkSizes == (1..MaxChunkSize) \cup {MAX_UPLOAD_CHUNK_SIZE + 1}

\* An instance attribute that is only annotated in the class body does not
\* exist until it is assigned: <<>> is the missing attribute, <<v>> holds v.
Unset == <<>>
HasAttr(a) == a # Unset

NoReq == [kind |-> "none", cursor_offset |-> 0, cursor_sid |-> <<>>,
          commit_path |-> <<>>, body |-> <<>>, content_hash |-> HexOf(<<>>)]

\* start(): Dropbox-API-Arg {close, content_hash}, data = first_chunk.
StartRequest(first_chunk) ==
    [kind |-> "start", cursor_offset |-> 0, cursor_sid |-> <<>>,
     commit_path |-> <<>>, body |-> first_chunk,
     content_hash |-> ContentHash(first_chunk)]

\* Variant of AppendRequest: one hasher serves the whole session, so the
\* hash sent with a chunk covers every byte sent so far.
AppendRequestRunningHash(i, chunk) ==
    [kind |-> "append", cursor_offset |-> offset[i], cursor_sid |-> session_id[i],
     commit_path |-> <<>>, body |-> chunk,
     content_hash |->
         ContentHash(SubSeq(Flatten(source[i]), 1, offset[i]) \o chunk)]

\* Variant of AppendRequest: _offset lives on the class, so every instance
\* reads the offset the first one advanced.
AppendRequestSharedOffset(i, chunk) ==
    [kind |-> "append", cursor_offset |-> offset["s1"],
     cursor_sid |-> session_id[i],
     commit_path |-> <<>>, body |-> chunk, content_hash |-> ContentHash(chunk)]

\* _upload_chunk(): Dropbox-API-Arg {close, cursor{offset, session_id},
\* content_hash}, data = chunk.
AppendRequest(i, chunk) ==
    [kind |-> "append", cursor_offset |-> offset[i], cursor_sid |-> session_id[i],
     commit_path |-> <<>>, body |-> chunk, content_hash |-> ContentHash(chunk)]

\* finish(): Dropbox-API-Arg {cursor{offset, session_id}, commit{path, mute}},
\* data = b"".
FinishRequest(i) ==
    [kind |-> "finish", cursor_offset |-> offset[i], cursor_sid |-> session_id[i],
     commit_path |-> path[i][1], body |-> <<>>, content_hash |-> HexOf(<<>>)]

\* Variant of AppendReadsAttrs: the class body gives _session_id a default,
\* so the read succeeds before start() has assigned it.
AppendReadsDefault(i) == TRUE

\* _upload_chunk() reads self._session_id while it builds the cursor.
AppendReadsAttrs(i) == HasAttr(session_id[i])

\* Variant of FinishReadsAttrs: finish() reads an attribute that no
\* operation assigns.
FinishReadsMissing(i) == FALSE

\* finish() reads self._session_id and self._path while it builds the header.
FinishReadsAttrs(i) == HasAttr(session_id[i]) /\ HasAttr(path[i])

\* _raise_for_dropbox_error(): the exception for a status ("ok": none).
RaiseForStatus(status) ==
    IF status = 200 THEN "ok"
    ELSE IF status = 400 THEN "DropboxBadInputError"
    ELSE "DropboxError"

Statuses == {200, 500}

FaultResults == {"DropboxTokenError", "DropboxBadInputError", "DropboxError",
                 "CancelledError"}

\* Faults the environment has injected so far.
Faults ==
    LET n(i) == Cardinality({k \in 1..Len(hist[i]) :
                                hist[i][k].result \in FaultResults})
    IN n("s1") + n("s2")
MayFail == Faults < MaxFaults

OpOf(p) ==
    IF p \in {"start_anext", "start_send", "start_recv"} THEN "start"
    ELSE IF p \in {"up_anext", "up_send", "up_recv"} THEN "upload"
    ELSE "finish"

ViaOf(c) ==
    IF c = "entering" THEN "aenter" ELSE IF c = "exiting" THEN "aexit" ELSE "call"

\* The record of a completed operation.
OpRecord(i, op, via, result) ==
    [op |-> op, via |-> via, result |-> result,
     chunk_size |-> IF op = "upload" THEN chunk_size[i] ELSE 0,
     path |-> IF op = "upload" THEN path[i] ELSE Unset]

Running(i, result) == OpRecord(i, OpOf(pc[i]), ViaOf(ctx[i]), result)

\* The coroutine of session i returns or raises: the operation is recorded
\* and control goes back to the caller.  An exception that leaves the body
\* of `async with` runs __aexit__, which awaits finish().
End(i, rec) ==
    LET h1 == Append(hist[i], rec)
    IN IF ctx[i] = "in" /\ rec.result # "ok"
       THEN IF FinishReadsAttrs(i)
            THEN /\ hist' = [hist EXCEPT ![i] = h1]
                 /\ pc' = [pc EXCEPT ![i] = "fin_send"]
                 /\ ctx' = [ctx EXCEPT ![i] = "exiting"]
                 /\ exc' = [exc EXCEPT ![i] = rec.result]
                 /\ req' = [req EXCEPT ![i] = FinishRequest(i)]
            ELSE /\ hist' = [hist EXCEPT ![i] =
                        Append(h1, OpRecord(i, "finish", "aexit", "AttributeError"))]
                 /\ pc' = [pc EXCEPT ![i] = "idle"]
                 /\ ctx' = [ctx EXCEPT ![i] = "out"]
                 /\ exc' = [exc EXCEPT ![i] = "none"]
                 /\ req' = [req EXCEPT ![i] = NoReq]
       ELSE /\ hist' = [hist EXCEPT ![i] = h1]
            /\ pc' = [pc EXCEPT ![i] = "idle"]
            /\ ctx' = [ctx EXCEPT ![i] =
                          IF @ = "entering"
                          THEN (IF rec.result = "ok" THEN "in" ELSE "out")
                          ELSE IF @ = "exiting" THEN "out" ELSE @]
            /\ exc' = [exc EXCEPT ![i] = "none"]
            /\ req' = [req EXCEPT ![i] = NoReq]

\* The call of session i that is waiting for its response.
InFlight(i) == CHOOSE k \in 1..Len(calls) :
                   calls[k].obj = i /\ calls[k].status = "inflight"

Answered(i, status, sid) ==
    [calls EXCEPT ![InFlight(i)].status = status, ![InFlight(i)].resp_sid = sid]

\* The session id the remote assigns to the next session it opens.
FreshSid == 1 + Cardinality({k \in 1..Len(calls) : calls[k].resp_sid # 0})

\* ---- the caller: any operation, in any order, whenever no coroutine of
\* the session is running, directly or inside the body of `async with`.
CallStart(i) ==
    /\ pc[i] = "idle" /\ ctx[i] \in {"out", "in"}
    /\ Len(hist[i]) < MaxOps
    /\ pc' = [pc EXCEPT ![i] = "start_anext"]
    /\ UNCHANGED <<source, stream, offset, session_id, path, buffer,
                   chunk_size, req, ctx, exc, hist, calls>>
    /\ UNCHANGED hvars

\* async with session: __aenter__ awaits start().  The statement is
\* entered on a session object that has not been used yet.
AEnter(i) ==
    /\ pc[i] = "idle" /\ ctx[i] = "out"
    /\ hist[i] = <<>>
    /\ pc' = [pc EXCEPT ![i] = "start_anext"]
    /\ ctx' = [ctx EXCEPT ![i] = "entering"]
    /\ UNCHANGED <<source, stream, offset, session_id, path, buffer,
                   chunk_size, req, exc, hist, calls>>
    /\ UNCHANGED hvars

CallUpload(i, p, cs) ==
    /\ pc[i] = "idle" /\ ctx[i] \in {"out", "in"}
    /\ Len(hist[i]) < MaxOps
    \* a caller passes the same arguments to every upload() of a session
    /\ HasAttr(path[i]) => (path[i] = <<p>> /\ chunk_size[i] = cs)
    /\ path' = [path EXCEPT ![i] = <<p>>]
    /\ chunk_size' = [chunk_size EXCEPT ![i] = cs]
    /\ buffer' = [buffer EXCEPT ![i] = <<>>]
    /\ pc' = [pc EXCEPT ![i] = "up_anext"]
    /\ UNCHANGED <<source, stream, offset, session_id, req, ctx, exc, hist, calls>>
    /\ UNCHANGED hvars

\* finish() up to its first await: the header is built, or the read of a
\* missing attribute raises.
BeginFinish(i, via) ==
    IF FinishReadsAttrs(i)
    THEN /\ req' = [req EXCEPT ![i] = FinishRequest(i)]
         /\ pc' = [pc EXCEPT ![i] = "fin_send"]
         /\ ctx' = [ctx EXCEPT ![i] = IF via = "aexit" THEN "exiting" ELSE @]
         /\ UNCHANGED hist
    ELSE /\ hist' = [hist EXCEPT ![i] =
                        Append(@, OpRecord(i, "finish", via, "AttributeError"))]
         /\ ctx' = [ctx EXCEPT ![i] = IF via = "aexit" THEN "out" ELSE @]
         /\ UNCHANGED <<req, pc>>

CallFinish(i) ==
    /\ pc[i] = "idle" /\ ctx[i] \in {"out", "in"}
    /\ Len(hist[i]) < MaxOps
    /\ BeginFinish(i, "call")
    /\ UNCHANGED <<source, stream, offset, session_id, path, buffer,
                   chunk_size, exc, calls>>
    /\ UNCHANGED hvars

\* The body of `async with` ends normally: __aexit__ awaits finish().
AExit(i) ==
    /\ pc[i] = "idle" /\ ctx[i] = "in"
    /\ BeginFinish(i, "aexit")
    /\ UNCHANGED <<source, stream, offset, session_id, path, buffer,
                   chunk_size, exc, calls>>
    /\ UNCHANGED hvars

\* ---- start()
\* anext(self._stream) answers; the request is built; _raw_request awaits
\* the access token.
StartAnext(i) ==
    /\ pc[i] = "start_anext"
    /\ IF stream[i] = <<>>
       THEN /\ End(i, Running(i, "StopAsyncIteration"))
            /\ UNCHANGED stream
       ELSE /\ stream' = [stream EXCEPT ![i] = Tail(@)]
            /\ req' = [req EXCEPT ![i] = StartRequest(Head(stream[i]))]
            /\ pc' = [pc EXCEPT ![i] = "start_send"]
            /\ UNCHANGED <<ctx, exc, hist>>
    /\ UNCHANGED <<source, offset, session_id, path, buffer, chunk_size, calls>>
    /\ UNCHANGED hvars

\* ---- _raw_request(): the access token arrives; None raises, otherwise
\* the POST is issued.
Send(i) ==
    /\ pc[i] \in {"start_send", "up_send", "fin_send"}
    /\ \/ /\ MayFail
          /\ End(i, Running(i, "DropboxTokenError"))
          /\ buffer' = [buffer EXCEPT ![i] = <<>>]
          /\ UNCHANGED calls
       \/ /\ calls' = Append(calls,
                [obj |-> i, opn |-> Len(hist[i]) + 1, kind |-> req[i].kind,
                 cursor_offset |-> req[i].cursor_offset,
                 cursor_sid |-> req[i].cursor_sid,
                 commit_path |-> req[i].commit_path,
                 body |-> req[i].body, content_hash |-> req[i].content_hash,
                 status |-> "inflight", resp_sid |-> 0])
          /\ pc' = [pc EXCEPT ![i] =
                       IF @ = "start_send" THEN "start_recv"
                       ELSE IF @ = "up_send" THEN "up_recv" ELSE "fin_recv"]
          /\ UNCHANGED <<buffer, req, ctx, exc, hist>>
    /\ UNCHANGED <<source, stream, offset, session_id, path, chunk_size>>
    /\ UNCHANGED hvars

\* ---- start(): the response arrives.
StartRecv(i, status, has_sid) ==
    /\ pc[i] = "start_recv"
    /\ (RaiseForStatus(status) # "ok" \/ ~has_sid) => MayFail
    /\ IF RaiseForStatus(status) # "ok"
       THEN /\ calls' = Answered(i, "failed", 0)
            /\ End(i, Running(i, RaiseForStatus(status)))
            /\ UNCHANGED <<session_id, offset>>
       ELSE IF ~has_sid
       THEN /\ calls' = Answered(i, "no_session_id", 0)
            /\ End(i, Running(i, "DropboxError"))
            /\ UNCHANGED <<session_id, offset>>
       ELSE /\ calls' = Answered(i, "ok", FreshSid)
            /\ session_id' = [session_id EXCEPT ![i] = <<FreshSid>>]
            /\ offset' = [offset EXCEPT ![i] = @ + Len(req[i].body)]
            /\ End(i, Running(i, "ok"))
    /\ UNCHANGED <<source, stream, path, buffer, chunk_size>>
    /\ UNCHANGED hvars

\* ---- upload()
\* The stream answers: it is exhausted and upload() returns, or the chunk
\* joins the buffer and, once the buffer holds chunk_size bytes,
\* _upload_chunk builds its request.
UpAnext(i) ==
    /\ pc[i] = "up_anext"
    /\ IF stream[i] = <<>>
       THEN /\ End(i, Running(i, "ok"))
            /\ buffer' = [buffer EXCEPT ![i] = <<>>]
            /\ UNCHANGED stream
       ELSE LET buf == buffer[i] \o Head(stream[i])
            IN /\ stream' = [stream EXCEPT ![i] = Tail(@)]
               /\ IF Len(buf) >= chunk_size[i]
                  THEN IF AppendReadsAttrs(i)
                       THEN /\ req' = [req EXCEPT ![i] =
                                   AppendRequest(i, Slice(buf, 0, chunk_size[i]))]
                            /\ pc' = [pc EXCEPT ![i] = "up_send"]
                            /\ buffer' = [buffer EXCEPT ![i] = buf]
                            /\ UNCHANGED <<ctx, exc, hist>>
                       ELSE /\ End(i, Running(i, "AttributeError"))
                            /\ buffer' = [buffer EXCEPT ![i] = <<>>]
                  ELSE /\ buffer' = [buffer EXCEPT ![i] = buf]
                       /\ UNCHANGED <<req, pc, ctx, exc, hist>>
    /\ UNCHANGED <<source, offset, session_id, path, chunk_size, calls>>
    /\ UNCHANGED hvars

\* Variant of Remainder: the bytes that were sent stay in the buffer.
RemainderKeepsAll(buf, cs) == buf

\* The buffer upload() keeps after a chunk was sent.
Remainder(buf, cs) == Slice(buf, cs, Len(buf))

\* The response of an append arrives; on success upload() drops the sent
\* bytes, advances the offset and awaits the stream again.
UpRecv(i, status) ==
    /\ pc[i] = "up_recv"
    /\ RaiseForStatus(status) # "ok" => MayFail
    /\ IF RaiseForStatus(status) # "ok"
       THEN /\ calls' = Answered(i, "failed", 0)
            /\ End(i, Running(i, RaiseForStatus(status)))
            /\ buffer' = [buffer EXCEPT ![i] = <<>>]
            /\ UNCHANGED offset
       ELSE /\ calls' = Answered(i, "ok", 0)
            /\ buffer' = [buffer EXCEPT ![i] = Remainder(@, chunk_size[i])]
            /\ offset' = [offset EXCEPT ![i] = @ + chunk_size[i]]
            /\ pc' = [pc EXCEPT ![i] = "up_anext"]
            /\ req' = [req EXCEPT ![i] = NoReq]
            /\ UNCHANGED <<ctx, exc, hist>>
    /\ UNCHANGED <<source, stream, session_id, path, chunk_size>>
    /\ UNCHANGED hvars

\* ---- finish(): the response arrives.
FinRecv(i, status) ==
    /\ pc[i] = "fin_recv"
    /\ RaiseForStatus(status) # "ok" => MayFail
    /\ calls' = Answered(i, IF RaiseForStatus(status) = "ok" THEN "ok" ELSE "failed", 0)
    /\ End(i, Running(i, RaiseForStatus(status)))
    /\ UNCHANGED <<source, stream, offset, session_id, path, buffer, chunk_size>>
    /\ UNCHANGED hvars

\* ---- the caller's task is cancelled while the coroutine is suspended:
\* CancelledError is raised at the await; a pending call is abandoned.
Cancel(i) ==
    /\ pc[i] \notin {"idle", "unused"}
    /\ MayFail
    /\ calls' = IF pc[i] \in {"start_recv", "up_recv", "fin_recv"}
                THEN Answered(i, "cancelled", 0) ELSE calls
    /\ End(i, Running(i, "CancelledError"))
    /\ buffer' = [buffer EXCEPT ![i] = <<>>]
    /\ UNCHANGED <<source, stream, offset, session_id, path, chunk_size>>
    /\ UNCHANGED hvars

SessionNext(i) ==
    \/ CallStart(i)
    \/ AEnter(i)
    \/ \E p \in Paths, cs \in ChunkSizes : CallUpload(i, p, cs)
    \/ CallFinish(i)
    \/ AExit(i)
    \/ StartAnext(i)
    \/ Send(i)
    \/ \E status \in Statuses, has_sid \in BOOLEAN : StartRecv(i, status, has_sid)
    \/ UpAnext(i)
    \/ \E status \in Statuses : UpRecv(i, status)
    \/ \E status \in Statuses : FinRecv(i, status)
    \/ Cancel(i)

\* The state after construction of the sessions in `live`, each over its
\* own stream.
SessionInitFrom(live, streams) ==
    /\ source \in [Sessions -> streams \cup {<<>>}]
    /\ \A i \in live : source[i] \in streams
    /\ \A i \in Sessions \ live : source[i] = <<>>
    /\ stream = source
    /\ offset = [i \in Sessions |-> 0]
    /\ session_id = [i \in Sessions |-> Unset]
    /\ path = [i \in Sessions |-> Unset]
    /\ pc = [i \in Sessions |-> IF i \in live THEN "idle" ELSE "unused"]
    /\ buffer = [i \in Sessions |-> <<>>]
    /\ chunk_size = [i \in Sessions |-> 0]
    /\ req = [i \in Sessions |-> NoReq]
    /\ ctx = [i \in Sessions |-> "out"]
    /\ exc = [i \in Sessions |-> "none"]
    /\ hist = [i \in Sessions |-> <<>>]
    /\ calls = <<>>

NoSessions ==
    /\ source = [i \in Sessions |-> <<>>]
    /\ stream = source
    /\ offset = [i \in Sessions |-> 0]
    /\ session_id = [i \in Sessions |-> Unset]
    /\ path = [i \in Sessions |-> Unset]
    /\ pc = [i \in Sessions |-> "unused"]
    /\ buffer = [i \in Sessions |-> <<>>]
    /\ chunk_size = [i \in Sessions |-> 0]
    /\ req = [i \in Sessions |-> NoReq]
    /\ ctx = [i \in Sessions |-> "out"]
    /\ exc = [i \in Sessions |-> "none"]
    /\ hist = [i \in Sessions |-> <<>>]
    /\ calls = <<>>

(***************************************************************************)
(* Specifications                                                          *)
(***************************************************************************)
\* A hasher on its own: no session is constructed.
HasherOnlyInit == HasherSpecInit /\ NoSessions
HasherSpec == HasherOnlyInit /\ [][HasherNext]_vars

SessionInit(live) == SessionInitFrom(live, Streams)

Init == HasherSpecInit /\ SessionInit({"s1"})
Next == \E i \in Sessions : SessionNext(i)
Spec == Init /\ [][Next]_vars

\* Two session objects over the same transport, each driven through its
\* life cycle once (start, then upload, then finish, directly or by
\* `async with`), their steps interleaved at every suspension point.
OpsBegun(i) ==
    LET done == [n \in 1..Len(hist[i]) |-> hist[i][n].op]
    IN IF pc[i] \in {"idle", "unused"} THEN done ELSE Append(done, OpOf(pc[i]))

DuoInit ==
    /\ HasherSpecInit
    /\ SessionInitFrom(Sessions, {DuoSource[i] : i \in Sessions})
    /\ source = DuoSource
DuoNext ==
    \E i \in Sessions :
        \/ OpsBegun(i) = <<>> /\ CallStart(i)
        \/ OpsBegun(i) = <<>> /\ AEnter(i)
        \/ /\ OpsBegun(i) = <<"start">>
           /\ \E cs \in 1..MaxChunkSize : CallUpload(i, DuoPath[i], cs)
        \/ OpsBegun(i) = <<"start", "upload">> /\ CallFinish(i)
        \/ OpsBegun(i) = <<"start", "upload">> /\ AExit(i)
        \/ StartAnext(i)
        \/ Send(i)
        \/ \E status \in Statuses, has_sid \in BOOLEAN : StartRecv(i, status, has_sid)
        \/ UpAnext(i)
        \/ \E status \in Statuses : UpRecv(i, status)
        \/ \E status \in Statuses : FinRecv(i, status)
        \/ Cancel(i)
DuoSpec == DuoInit /\ [][DuoNext]_vars

\* One session over a stream that yields at least one chunk, driven through
\* start(), upload(), finish() in this order, directly or by `async with`;
\* an exception ends the sequence.  The caller goes on to the next
\* operation, the event loop resumes the coroutine, and the stream, the
\* token callback and the transport answer every await: these steps are
\* fair.  Faults and cancellation may happen and need not.
Healthy(i) == \A n \in 1..Len(hist[i]) : hist[i][n].result = "ok"
Drive(i) ==
    /\ Healthy(i)
    /\ \/ OpsBegun(i) = <<>> /\ (CallStart(i) \/ AEnter(i))
       \/ /\ OpsBegun(i) = <<"start">>
          /\ \E p \in Paths, cs \in ChunkSizes : CallUpload(i, p, cs)
       \/ /\ OpsBegun(i) = <<"start", "upload">>
          /\ (ctx[i] = "out" /\ CallFinish(i)) \/ AExit(i)
Proceed(i) ==
    \/ StartAnext(i)
    \/ Send(i)
    \/ \E status \in Statuses, has_sid \in BOOLEAN : StartRecv(i, status, has_sid)
    \/ UpAnext(i)
    \/ \E status \in Statuses : UpRecv(i, status)
    \/ \E status \in Statuses : FinRecv(i, status)
DriveAny == \E i \in Sessions : Drive(i)
ProceedAny == \E i \in Sessions : Proceed(i)
CancelAny == \E i \in Sessions : Cancel(i)

LiveInit == HasherSpecInit /\ SessionInitFrom({"s1"}, Streams \ {<<>>})
LiveNext == DriveAny \/ ProceedAny \/ CancelAny
LiveSpec ==
    LiveInit /\ [][LiveNext]_vars /\ WF_vars(DriveAny) /\ WF_vars(ProceedAny)

\* The same session over streams of wide spans.
WideInit == HasherSpecInit /\ SessionInitFrom({"s1"}, WideStreams)
WideSpec == WideInit /\ [][Next]_vars

(***************************************************************************)
(* Properties                                                              *)
(***************************************************************************)
NCalls == Len(calls)
Live == {i \in Sessions : pc[i] # "unused"}

\* The transport calls of session object i, in the order issued.
CallsOf(i) == {k \in 1..NCalls : calls[k].obj = i}

\* Bytes the remote has accepted, before call k, for the remote session
\* that call k's cursor names: the body of the start call that opened it
\* and of every append to it that was answered with success.
AcceptedBefore(k) ==
    LET sid == calls[k].cursor_sid
        J == {j \in 1..(k - 1) :
                 /\ calls[j].status = "ok"
                 /\ \/ calls[j].kind = "start" /\ <<calls[j].resp_sid>> = sid
                    \/ calls[j].kind = "append" /\ calls[j].cursor_sid = sid}
        RECURSIVE Sum(_)
        Sum(S) == IF S = {} THEN 0
                  ELSE LET j == CHOOSE x \in S : TRUE
                       IN Len(calls[j].body) + Sum(S \ {j})
    IN Sum(J)

\* The bodies session object i has sent, concatenated in the order sent.
RECURSIVE BodiesFrom(_, _)
BodiesFrom(i, k) ==
    IF k > NCalls THEN <<>>
    ELSE (IF calls[k].obj = i THEN calls[k].body ELSE <<>>) \o BodiesFrom(i, k + 1)
SentBytes(i) == BodiesFrom(i, 1)

\* ---------------------------------------------------------------- C1
\* C1: every append_v2 and finish call carries a cursor offset equal to the
\* number of bytes the remote has accepted so far for that session (the
\* start chunk plus every successfully appended chunk).
C1_CursorOffsetIsAccepted ==
    \A k \in 1..NCalls :
        calls[k].kind \in {"append", "finish"}
            => calls[k].cursor_offset = AcceptedBefore(k)

\* ---------------------------------------------------------------- C2
\* C2: when start(), upload() and finish() all succeed, the start body, the
\* append bodies and the finish body together are the whole byte sequence
\* the stream produced.
C2_NoByteLost ==
    \A i \in Live :
        ( /\ Len(hist[i]) = 3
          /\ hist[i][1].op = "start" /\ hist[i][1].result = "ok"
          /\ hist[i][2].op = "upload" /\ hist[i][2].result = "ok"
          /\ hist[i][3].op = "finish" /\ hist[i][3].result = "ok" )
            => SentBytes(i) = Flatten(source[i])

\* ---------------------------------------------------------------- C3
\* C3: upload() with chunk_size above MAX_UPLOAD_CHUNK_SIZE fails with a
\* configuration error, and that upload() issues no transport call.
C3_OversizedChunkRejected ==
    \A i \in Live : \A n \in 1..Len(hist[i]) :
        (hist[i][n].op = "upload" /\ hist[i][n].chunk_size > MAX_UPLOAD_CHUNK_SIZE)
            => /\ hist[i][n].result = "ConfigurationError"
               /\ \A k \in CallsOf(i) : calls[k].opn # n

\* ---------------------------------------------------------------- C4
BeginsWithSeparator(p) == Len(p) > 0 /\ p[1] = "/"

\* C4: upload() with a destination path that does not begin with the path
\* separator fails with a bad-input error, and that upload() issues no
\* transport call.
C4_BadPathRejected ==
    \A i \in Live : \A n \in 1..Len(hist[i]) :
        (hist[i][n].op = "upload" /\ ~BeginsWithSeparator(hist[i][n].path[1]))
            => /\ hist[i][n].result = "DropboxBadInputError"
               /\ \A k \in CallsOf(i) : calls[k].opn # n

\* ---------------------------------------------------------------- C5
\* C5: a start response without session_id makes start() fail with
\* DropboxError, records no session id, leaves the offset where it was, and
\* no later operation of that session issues a transport call.
C5_MissingSessionIdIsFinal ==
    \A k \in 1..NCalls :
        calls[k].status = "no_session_id"
            => LET i == calls[k].obj
               IN /\ Len(hist[i]) >= calls[k].opn
                     => hist[i][calls[k].opn].result = "DropboxError"
                  /\ CallsOf(i) = {k}
                     => offset[i] = 0 /\ session_id[i] = Unset
                  /\ \A j \in CallsOf(i) : j <= k

\* ---------------------------------------------------------------- C6
\* C6: after an append call failed, every later operation on the session
\* is rejected and no further transport call is issued.
C6_FailedAppendIsFinal ==
    \A k \in 1..NCalls :
        (calls[k].kind = "append" /\ calls[k].status = "failed")
            => LET i == calls[k].obj
               IN /\ \A j \in CallsOf(i) : j <= k
                  /\ \A n \in 1..Len(hist[i]) :
                         n > calls[k].opn => hist[i][n].result # "ok"

\* ---------------------------------------------------------------- C7
\* C7: once upload() was cancelled or raised, no finish call is issued for
\* the session, also when it is used as an async context manager.
C7_NoFinishAfterAbortedUpload ==
    \A k \in 1..NCalls :
        calls[k].kind = "finish"
            => \A n \in 1..Len(hist[calls[k].obj]) :
                   (n < calls[k].opn /\ hist[calls[k].obj][n].op = "upload")
                       => hist[calls[k].obj][n].result = "ok"

\* ---------------------------------------------------------------- C8
\* C8: whatever the order of start(), upload() and finish(), no append_v2
\* or finish call is issued before a start call of the session succeeded,
\* and its cursor names a session id such a start recorded.
C8_NoCallBeforeStart ==
    \A k \in 1..NCalls :
        calls[k].kind \in {"append", "finish"}
            => \E j \in 1..(k - 1) :
                   /\ calls[j].obj = calls[k].obj
                   /\ calls[j].kind = "start"
                   /\ calls[j].status = "ok"
                   /\ calls[k].cursor_sid = <<calls[j].resp_sid>>

\* An append was issued by an upload() that ran after a successful start,
\* and an upload() before any start pulled a full chunk and raised.
C8_Witness ==
    /\ \E k \in 1..NCalls : calls[k].kind = "append"
    /\ \E k \in 1..NCalls : calls[k].kind = "start" /\ calls[k].status = "ok"
    /\ \E i \in Live : \E n \in 1..Len(hist[i]) :
           hist[i][n].op = "upload" /\ hist[i][n].result = "AttributeError"

\* ---------------------------------------------------------------- C9
\* C9: a session issues at most one start and at most one finish, and once
\* finish succeeded every further operation is rejected without a call.
C9_OneStartOneFinish ==
    \A i \in Live :
        /\ Cardinality({k \in CallsOf(i) : calls[k].kind = "start"}) <= 1
        /\ Cardinality({k \in CallsOf(i) : calls[k].kind = "finish"}) <= 1
        /\ \A k \in CallsOf(i) :
               (calls[k].kind = "finish" /\ calls[k].status = "ok")
                   => /\ \A j \in CallsOf(i) : j <= k
                      /\ \A n \in 1..Len(hist[i]) :
                             n > calls[k].opn => hist[i][n].result # "ok"

\* ---------------------------------------------------------------- C10
\* The reference construction: the blocks of BLOCK_SIZE bytes of the whole
\* sequence (the last may be shorter), none for the empty sequence.
RECURSIVE RefBlocks(_)
RefBlocks(data) ==
    IF data = <<>> THEN <<>>
    ELSE <<SubSeq(data, 1, Min(BLOCK_SIZE, Len(data)))>>
             \o RefBlocks(SubSeq(data, Min(BLOCK_SIZE, Len(data)) + 1, Len(data)))

\* The digest of the in-order concatenation of the block digests.
RefDigest(data) ==
    [sha256 |-> [k \in 1..Len(RefBlocks(data)) |-> [sha256 |-> RefBlocks(data)[k]]]]

\* C10: digest() and hexdigest() return the reference construction over
\* all bytes fed by the update calls so far, however they were split.
C10_DigestIsReference ==
    /\ hout.kind = "digest" => hout.value = <<RefDigest(fed)>>
    /\ hout.kind = "hexdigest" => hout.value = <<HexOf(RefDigest(fed))>>

\* A digest over more than one block whose last block is partial.
C10_Witness ==
    /\ hout.kind \in {"digest", "hexdigest"}
    /\ Len(fed) > BLOCK_SIZE
    /\ Len(fed) % BLOCK_SIZE # 0

\* ---------------------------------------------------------------- C11
\* The digest of data fed by one update call, and fed one byte per call.
OneShotDigest(data) == HasherDigest(HasherUpdate(HasherInit, data))

RECURSIVE FeedBytes(_, _)
FeedBytes(h, data) ==
    IF data = <<>> THEN h
    ELSE FeedBytes(HasherUpdate(h, <<Head(data)>>), Tail(data))
ByteWiseDigest(data) == HasherDigest(FeedBytes(HasherInit, data))

\* The digest the instance would return now.
DigestNow == IF hout.kind = "digest" THEN hout.value[1] ELSE HasherDigest(hasher)

\* C11: however the byte sequence was split over the update calls
\* (empty spans and spans across a block boundary included), the digest is
\* the one of the sequence fed in a single call and the one of the sequence
\* fed byte by byte; an update with no bytes changes nothing.
C11_SplitInvariance ==
    /\ (HasherUsable(hasher) \/ hout.kind = "digest")
           => /\ DigestNow = OneShotDigest(fed)
              /\ DigestNow = ByteWiseDigest(fed)
    /\ hout.kind = "hexdigest" => hout.value = <<HexOf(OneShotDigest(fed))>>
    /\ HasherUsable(hasher) => HasherUpdate(hasher, <<>>) = hasher

\* A digest of more bytes than one update call takes, so that they were fed
\* in several calls and across a block boundary.
C11_Witness ==
    /\ hout.kind = "digest"
    /\ Len(fed) > MaxUpdateLen
    /\ Len(fed) > BLOCK_SIZE

\* ---------------------------------------------------------------- C12
Consumed == hasher.overall_hasher.is_none

\* C12: the first digest() or hexdigest() consumes the hasher, and every
\* later update, digest or hexdigest fails with AssertionError and changes
\* nothing, whatever was fed before.
C12_OneShot ==
    [][ /\ hout'.kind \in {"digest", "hexdigest"} => (~Consumed /\ Consumed')
        /\ Consumed => /\ hout'.kind = "AssertionError"
                       /\ hasher' = hasher
                       /\ fed' = fed ]_vars

\* A call failed on a hasher that was consumed after an exact block.
C12_Witness ==
    /\ Consumed
    /\ hout.kind = "AssertionError"
    /\ Len(fed) = BLOCK_SIZE

\* ---------------------------------------------------------------- C13
\* The digests of the first n blocks of data.
BlockDigests(data, n) == [k \in 1..n |-> [sha256 |-> RefBlocks(data)[k]]]

\* Blocks of data that lie wholly before its last block.
BlocksBeforeLast(data) ==
    IF data = <<>> THEN 0 ELSE (Len(data) - 1) \div BLOCK_SIZE

\* The block digests inside a returned digest or hexdigest.
FoldedIn(out) ==
    IF out.kind = "digest" THEN out.value[1].sha256
    ELSE out.value[1].hex[1].sha256

\* C13: when the bytes fed so far end exactly at a block boundary the
\* hasher has not rotated: block_pos is BLOCK_SIZE, the block hasher holds
\* the whole last block and the overall hasher holds the blocks before it.
\* The last block is folded exactly once: the overall hasher always holds
\* the blocks before the current one, each once, and a digest holds every
\* block once.
C13_FullBlockFoldedOnce ==
    /\ HasherUsable(hasher)
           => /\ hasher.overall_hasher.data
                     = BlockDigests(fed, BlocksBeforeLast(fed))
              /\ (fed # <<>> /\ Len(fed) % BLOCK_SIZE = 0)
                     => /\ hasher.block_pos = BLOCK_SIZE
                        /\ hasher.block_hasher.data
                               = RefBlocks(fed)[Len(RefBlocks(fed))]
    /\ hout.kind \in {"digest", "hexdigest"}
           => FoldedIn(hout) = BlockDigests(fed, Len(RefBlocks(fed)))

\* A digest was taken right after bytes that fill two blocks exactly.
C13_Witness ==
    /\ hout.kind \in {"digest", "hexdigest"}
    /\ Len(fed) = 2 * BLOCK_SIZE

\* ---------------------------------------------------------------- C20
\* C20: block_pos stays within 0..BLOCK_SIZE and is the number of bytes the
\* current block hasher has been fed since it was created.
C20_BlockPosInvariant ==
    /\ 0 <= hasher.block_pos /\ hasher.block_pos <= BLOCK_SIZE
    /\ ~hasher.block_hasher.is_none
           => hasher.block_pos = Len(hasher.block_hasher.data)

\* A second block is being filled after a rotation.
C20_Witness ==
    /\ HasherUsable(hasher)
    /\ Len(fed) > BLOCK_SIZE
    /\ hasher.block_pos \in 1..(BLOCK_SIZE - 1)

\* ---------------------------------------------------------------- C14
\* The transport calls the first three operations of session object i
\* issued, in the order issued.
CallSeq(i) == SelectSeq(calls, LAMBDA c : c.obj = i /\ c.opn <= 3)

\* The three operations of session i, each called once and in order,
\* all succeeded.
RanToEnd(i) ==
    /\ Len(hist[i]) = 3
    /\ hist[i][1].op = "start" /\ hist[i][1].result = "ok"
    /\ hist[i][2].op = "upload" /\ hist[i][2].result = "ok"
    /\ hist[i][3].op = "finish" /\ hist[i][3].result = "ok"

\* The example run: the stream yields three spans of chunk_size bytes each
\* ([AAAA, BBBB, CCCC] with chunk_size 4, at the scale of the bounds), and
\* start(), upload() and finish() succeed.
ExampleRun(i) ==
    /\ RanToEnd(i)
    /\ Len(source[i]) = 3
    /\ \A k \in 1..3 : Len(source[i][k]) = hist[i][2].chunk_size

\* The claim as stated: the second and third span leave in one append of
\* twice chunk_size bytes.
C14_OneAppendOfBothSpans ==
    \A i \in Live :
        ExampleRun(i)
            => LET cs == CallSeq(i)
                   n == hist[i][2].chunk_size
               IN /\ Len(cs) = 3
                  /\ cs[1].kind = "start" /\ cs[1].body = source[i][1]
                  /\ cs[2].kind = "append"
                  /\ cs[2].body = source[i][2] \o source[i][3]
                  /\ cs[3].kind = "finish" /\ cs[3].cursor_offset = 3 * n

\* C14 (amended): in the example run start() sends the first span and the
\* offset becomes chunk_size; upload() sends the second span and the third
\* span in one append each, of chunk_size bytes, at cursor offsets
\* chunk_size and 2 * chunk_size, and the offset becomes 3 * chunk_size;
\* finish() commits at offset 3 * chunk_size.
C14_OneAppendPerSpan ==
    \A i \in Live :
        ExampleRun(i)
            => LET cs == CallSeq(i)
                   n == hist[i][2].chunk_size
               IN /\ Len(cs) = 4
                  /\ cs[1].kind = "start" /\ cs[1].body = source[i][1]
                  /\ cs[2].kind = "append" /\ cs[2].body = source[i][2]
                  /\ cs[2].cursor_offset = n
                  /\ cs[3].kind = "append" /\ cs[3].body = source[i][3]
                  /\ cs[3].cursor_offset = 2 * n
                  /\ cs[4].kind = "finish" /\ cs[4].cursor_offset = 3 * n
                  /\ offset[i] = 3 * n

\* The example run has happened.
C14_Witness == \E i \in Live : ExampleRun(i)

\* ---------------------------------------------------------------- C15
\* The length of the largest span the stream yields.
LargestSpan(ss) ==
    IF ss = <<>> THEN 0
    ELSE CHOOSE m \in {Len(ss[k]) : k \in 1..Len(ss)} :
             \A k \in 1..Len(ss) : Len(ss[k]) <= m

\* C15: while upload() runs, the buffer never holds more than chunk_size
\* bytes plus the length of the largest span the stream yields.
C15_BufferBounded ==
    \A i \in Live :
        pc[i] \in {"up_anext", "up_send", "up_recv"}
            => Len(buffer[i]) <= chunk_size[i] + LargestSpan(source[i])

\* ---------------------------------------------------------------- C16
\* The response of call k has been received.
ResponseReceived(k) == calls[k].status \in {"ok", "failed", "no_session_id"}

\* Every byte of body a comes before every byte of body b in the stream.
Precedes(a, b) ==
    \A x \in 1..Len(a) : \A y \in 1..Len(b) : a[x] < b[y]

\* C16: a call of a session is issued only after the response of every
\* earlier call of that session has been received, so at most one call of
\* the session is in flight, and the append bodies are in stream order.
C16_CallsSequential ==
    \A k \in 1..NCalls : \A j \in 1..(k - 1) :
        calls[j].obj = calls[k].obj
            => /\ ResponseReceived(j)
               /\ (calls[j].kind = "append" /\ calls[k].kind = "append")
                      => Precedes(calls[j].body, calls[k].body)

\* ---------------------------------------------------------------- C17
\* The start and append calls of session object i that succeeded.
Succeeded(i) ==
    {k \in CallsOf(i) : calls[k].kind \in {"start", "append"}
                        /\ calls[k].status = "ok"}

RECURSIVE BodyBytes(_)
BodyBytes(K) ==
    IF K = {} THEN 0
    ELSE LET k == CHOOSE x \in K : TRUE
         IN Len(calls[k].body) + BodyBytes(K \ {k})

\* The session id the last successful start of session object i received.
LastStarted(i) ==
    LET S == {k \in Succeeded(i) : calls[k].kind = "start"}
    IN IF S = {} THEN Unset
       ELSE <<calls[CHOOSE k \in S : \A j \in S : j <= k].resp_sid>>

\* C17: the offset is the sum of the body lengths of the start and append
\* calls that succeeded, and the session id is the one of the last start
\* that succeeded: a success advances the offset by the length of the body
\* sent, and a call that fails (no token, a status other than 200, no
\* session_id in the response) changes neither.
C17_OffsetCountsSuccesses ==
    \A i \in Live :
        /\ offset[i] = BodyBytes(Succeeded(i))
        /\ session_id[i] = LastStarted(i)

\* A start and an append succeeded and a later call of the session failed.
C17_Witness ==
    \E i \in Live : \E k \in CallsOf(i) :
        /\ calls[k].status \in {"failed", "no_session_id"}
        /\ \E j \in Succeeded(i) : j < k /\ calls[j].kind = "append"
        /\ offset[i] > 1

\* ---------------------------------------------------------------- C18
\* The bytes session object i sent before call k.
RECURSIVE SentBefore(_, _)
SentBefore(i, k) ==
    IF k <= 1 THEN <<>>
    ELSE SentBefore(i, k - 1)
             \o (IF calls[k - 1].obj = i THEN calls[k - 1].body ELSE <<>>)

\* C18: the content_hash of every start and append call is the content
\* hash of that call's body alone, never the hash of the bytes sent so
\* far.
C18_HashOfOwnBody ==
    \A k \in 1..NCalls :
        calls[k].kind \in {"start", "append"}
            => /\ calls[k].content_hash = HexOf(RefDigest(calls[k].body))
               /\ SentBefore(calls[k].obj, k) # <<>>
                      => calls[k].content_hash
                             # HexOf(RefDigest(SentBefore(calls[k].obj, k)
                                                  \o calls[k].body))

\* A start whose body is longer than a block and a later append of the
\* same session carried their hashes.
C18_Witness ==
    \E i \in Live :
        /\ \E k \in CallsOf(i) :
               calls[k].kind = "start" /\ Len(calls[k].body) > BLOCK_SIZE
        /\ \E k \in CallsOf(i) :
               calls[k].kind = "append" /\ SentBefore(i, k) # <<>>

\* ---------------------------------------------------------------- C19
IsPrefix(a, b) == Len(a) <= Len(b) /\ a = SubSeq(b, 1, Len(a))

\* C19: with two session objects interleaved over one transport, each
\* keeps its own state: its offset counts the bodies of its own successful
\* calls, its session id is the one its own start received, its path is
\* the one its own upload() was given, it sends the bytes of its own
\* stream, and each cursor names its own remote session, which no other
\* object appends to, with the bytes that session has accepted.
C19_SessionsIndependent ==
    \A i \in Live :
        /\ offset[i] = BodyBytes(Succeeded(i))
        /\ session_id[i] = LastStarted(i)
        /\ path[i] \in {Unset, <<DuoPath[i]>>}
        /\ IsPrefix(SentBytes(i), Flatten(source[i]))
        /\ \A k \in CallsOf(i) :
               /\ calls[k].kind = "finish" => calls[k].commit_path = DuoPath[i]
               /\ calls[k].kind \in {"append", "finish"}
                      => /\ \E j \in Succeeded(i) :
                                /\ j < k /\ calls[j].kind = "start"
                                /\ calls[k].cursor_sid = <<calls[j].resp_sid>>
                         /\ calls[k].cursor_offset = AcceptedBefore(k)
                         /\ \A j \in 1..NCalls :
                                calls[j].cursor_sid = calls[k].cursor_sid
                                    => calls[j].obj = i

\* Both sessions ran to their finish call with different offsets, and a
\* call of one was issued between two calls of the other.
C19_Witness ==
    /\ \A i \in Sessions :
           \E k \in CallsOf(i) : calls[k].kind = "finish" /\ calls[k].status = "ok"
    /\ offset["s1"] = 2 /\ offset["s2"] = 3
    /\ \E a, b, c \in 1..NCalls :
           /\ a < b /\ b < c
           /\ calls[a].obj = calls[c].obj /\ calls[b].obj # calls[a].obj
           /\ calls[b].kind = "append"

\* ---------------------------------------------------------------- C21
\* The sequence has ended: no coroutine of the session is running and no
\* `async with` is open, and either finish() succeeded after start() and
\* upload(), or an operation raised.
Settled(i) ==
    /\ pc[i] = "idle" /\ ctx[i] = "out"
    /\ RanToEnd(i) \/ ~Healthy(i)

\* C21: over a stream that yields at least one chunk and a transport that
\* answers every call, start(), upload(), finish() terminates: the
\* session ends up settled for good, with finish() succeeded when no fault
\* occurred and otherwise with the exception of the failed operation.
C21_Terminates ==
    <>[](\A i \in Live : Settled(i) /\ (Faults = 0 => RanToEnd(i)))

\* The sequence ran to a successful finish after two appends.
C21_Witness ==
    \E i \in Live :
        /\ Settled(i) /\ RanToEnd(i)
        /\ Cardinality({k \in CallsOf(i) : calls[k].kind = "append"}) >= 2

====
